---- MODULE Spec2Model ----
(***************************************************************************)
(* A model of src/app.rs: a Bevy app holding one 2D camera and one player  *)
(* sprite, whose camera is moved, rotated and zoomed by the keyboard.      *)
(*                                                                         *)
(* All camera quantities are f32 in the source.  An f32 is modelled by its *)
(* IEEE-754 bit pattern, kept as one signed integer: the magnitude is the  *)
(* 31 low bits of the pattern (biased exponent * 2^23 + fraction) and the  *)
(* sign of the integer is the sign of the float.  Integer order is then    *)
(* float order, and +0 and -0 (equal in Rust) are both 0.  Arithmetic is   *)
(* round-to-nearest-even, with subnormals and overflow to infinity.        *)
(***************************************************************************)
EXTENDS Integers, Sequences, FiniteSets

RECURSIVE Pow2(_)
Pow2(n) == IF n <= 0 THEN 1 ELSE 2 * Pow2(n - 1)

RECURSIVE BitLen(_)
BitLen(n) == IF n <= 0 THEN 0 ELSE 1 + BitLen(n \div 2)

Abs(i) == IF i < 0 THEN -i ELSE i

(* ---------------------------- f32 format ------------------------------- *)

F32Inf == 255 * Pow2(23)

F32IsFinite(a) == Abs(a) < F32Inf

\* The significand m and exponent e of a finite f32: |a| = m * 2^e.
F32Mant(a) ==
    LET b == Abs(a)
    IN  IF b \div Pow2(23) = 0 THEN b % Pow2(23) ELSE Pow2(23) + (b % Pow2(23))

F32Exp(a) ==
    LET b == Abs(a)
    IN  IF b \div Pow2(23) = 0 THEN -149 ELSE (b \div Pow2(23)) - 150

\* A non-zero significand shifted left until it has 24 bits (exact).
NormMant(m) == m * Pow2(24 - BitLen(m))
NormExp(m, e) == e - (24 - BitLen(m))

\* The f32 nearest to (+/-) m * 2^e, ties to even.  sticky says that the true
\* value is slightly above m * 2^e (bits were dropped below m); m < 2^30.
F32Round(neg, m, e, sticky) ==
    IF m = 0 THEN 0
    ELSE LET len  == BitLen(m)
             e2   == IF e + len - 24 < -149 THEN -149 ELSE e + len - 24
             r    == e2 - e
             q0   == IF r <= 0 THEN m * Pow2(-r)
                     ELSE IF r > 30 THEN 0 ELSE m \div Pow2(r)
             rem  == IF r <= 0 \/ r > 30 THEN 0 ELSE m % Pow2(r)
             half == IF r <= 0 \/ r > 30 THEN 1 ELSE Pow2(r - 1)
             up   == /\ r > 0
                     /\ r <= 30
                     /\ \/ rem > half
                        \/ rem = half /\ (sticky \/ q0 % 2 = 1)
             q    == IF up THEN q0 + 1 ELSE q0
             mag  == IF e2 + 150 >= 255 THEN F32Inf
                     ELSE (e2 + 149) * Pow2(23) + q
         IN  IF neg THEN -mag ELSE mag

\* An integer literal such as 1.0 or 64.0 as an f32.
F32FromInt(n) == F32Round(n < 0, Abs(n), 0, FALSE)

(* --------------------------- f32 arithmetic ---------------------------- *)

\* a * b.  The 48-bit product of the significands is formed from 12-bit limbs.
F32Mul(a, b) ==
    LET neg == (a < 0) /= (b < 0)
    IN  IF a = 0 \/ b = 0 THEN 0
        ELSE IF ~F32IsFinite(a) \/ ~F32IsFinite(b)
             THEN (IF neg THEN -F32Inf ELSE F32Inf)
        ELSE LET ma  == NormMant(F32Mant(a))
                 mb  == NormMant(F32Mant(b))
                 ea  == NormExp(F32Mant(a), F32Exp(a))
                 eb  == NormExp(F32Mant(b), F32Exp(b))
                 a1  == ma \div 4096
                 a0  == ma % 4096
                 b1  == mb \div 4096
                 b0  == mb % 4096
                 mid == a1 * b0 + a0 * b1
                 t   == a0 * b0 + (mid % 4096) * 4096
                 lo  == t % Pow2(24)
                 hi  == a1 * b1 + mid \div 4096 + t \div Pow2(24)
             IN  F32Round(neg, hi * 16 + lo \div Pow2(20), ea + eb + 20,
                          lo % Pow2(20) /= 0)

\* a / b for finite non-zero b: long division, 7 quotient bits at a time.
F32Div(a, b) ==
    LET neg == (a < 0) /= (b < 0)
    IN  IF a = 0 THEN 0
        ELSE IF ~F32IsFinite(a) THEN (IF neg THEN -F32Inf ELSE F32Inf)
        ELSE LET ma == NormMant(F32Mant(a))
                 mb == NormMant(F32Mant(b))
                 ea == NormExp(F32Mant(a), F32Exp(a))
                 eb == NormExp(F32Mant(b), F32Exp(b))
                 q0 == ma \div mb
                 r0 == ma % mb
                 q1 == (r0 * 128) \div mb
                 r1 == (r0 * 128) % mb
                 q2 == (r1 * 128) \div mb
                 r2 == (r1 * 128) % mb
                 q3 == (r2 * 128) \div mb
                 r3 == (r2 * 128) % mb
                 q4 == (r3 * 128) \div mb
                 r4 == (r3 * 128) % mb
                 q  == (((q0 * 128 + q1) * 128 + q2) * 128 + q3) * 128 + q4
             IN  F32Round(neg, q, ea - eb - 28, r4 /= 0)

\* m shifted right by d bits, any non-zero bit shifted out kept in the last bit.
ShiftRightJam(m, d) ==
    IF d <= 0 THEN m
    ELSE IF d > 30 THEN (IF m = 0 THEN 0 ELSE 1)
    ELSE LET fl == m \div Pow2(d)
         IN  IF m % Pow2(d) /= 0 /\ fl % 2 = 0 THEN fl + 1 ELSE fl

\* a + b: the operand with the smaller exponent is aligned to the other with
\* three guard bits.
F32Add(a, b) ==
    IF ~F32IsFinite(a) THEN a
    ELSE IF ~F32IsFinite(b) THEN b
    ELSE IF a = 0 THEN b
    ELSE IF b = 0 THEN a
    ELSE LET big   == IF F32Exp(a) >= F32Exp(b) THEN a ELSE b
             small == IF F32Exp(a) >= F32Exp(b) THEN b ELSE a
             d     == F32Exp(big) - F32Exp(small)
             m1    == F32Mant(big) * 8
             m2    == ShiftRightJam(F32Mant(small) * 8, d)
             s     == (IF big < 0 THEN -m1 ELSE m1)
                      + (IF small < 0 THEN -m2 ELSE m2)
         IN  F32Round(s < 0, Abs(s), F32Exp(big) - 3, FALSE)

F32Sub(a, b) == F32Add(a, -b)

(* ------------------------------ the world ------------------------------ *)

\* The eight keys respond_to_keyboard reads, and one key it does not read.
ArrowKeys == {"ArrowRight", "ArrowLeft", "ArrowUp", "ArrowDown"}
RotateKeys == {"KeyQ", "KeyE"}
ZoomKeys == {"KeyW", "KeyS"}
ControlKeys == ArrowKeys \cup RotateKeys \cup ZoomKeys
AllKeys == ControlKeys \cup {"Space"}

\* What a pointer can do between two frames.
PointerEvents == {"button", "motion", "wheel"}

StartupSystems == {"add_camera", "add_player"}

One == F32FromInt(1)

\* sin and cos of 0.05, the half angle of rotate_z(0.1), as f32 bit patterns
\* (0x3d4cb6f5 and 0x3f7fae19): the f32 nearest to the true values, which lie
\* 0.29 and 0.15 units in the last place away.
SinHalfAngle == 1028437749
CosHalfAngle == 1065332249

\* The literal 1.1 as an f32 (0x3f8ccccd): the f32 nearest to 11/10.
ZoomFactor == F32Div(F32FromInt(11), F32FromInt(10))

VARIABLES
    pc,        \* where App::update is: "idle" (not inside it), "startup", "update"
    started,   \* the Startup schedule has run
    ran,       \* the startup systems that have run in this Startup schedule
    commands,  \* the spawn commands queued and not yet applied
    world,     \* the entities, in spawn order
    keys,      \* ButtonInput<KeyCode>: the keys currently pressed
    pointer,   \* the pointer event since the last update, or "none"
    frames,    \* the number of completed updates
    panicked   \* a system panicked

vars == <<pc, started, ran, commands, world, keys, pointer, frames, panicked>>

\* A faulty variant: the camera starts zoomed out.
Camera2dBundleZoomed ==
    [comps |-> {"Camera", "Transform", "OrthographicProjection"},
     tx |-> 0, ty |-> 0, rz |-> 0, rw |-> One, sx |-> One, sy |-> One,
     proj |-> F32FromInt(2)]

\* Camera2dBundle::default(): an identity Transform and a projection of scale 1.
Camera2dBundle ==
    [comps |-> {"Camera", "Transform", "OrthographicProjection"},
     tx |-> 0, ty |-> 0, rz |-> 0, rw |-> One, sx |-> One, sy |-> One,
     proj |-> One]

\* The player: a SpriteBundle with scale (64, 32, 1) and the Player marker.  It
\* has no OrthographicProjection; proj is unused.
PlayerBundle ==
    [comps |-> {"Player", "Sprite", "Transform"},
     tx |-> 0, ty |-> 0, rz |-> 0, rw |-> One,
     sx |-> F32FromInt(64), sy |-> F32FromInt(32), proj |-> 0]

\* The entities a query for the components cs matches.
Query(cs) == {i \in DOMAIN world : cs \subseteq world[i].comps}

count_n_cameras == Cardinality(Query({"Camera"}))
count_n_players == Cardinality(Query({"Player"}))

\* create_app(): systems are registered, nothing is spawned and no update is run.
Init ==
    /\ pc = "idle"
    /\ started = FALSE
    /\ ran = {}
    /\ commands = <<>>
    /\ world = <<>>
    /\ keys = {}
    /\ pointer = "none"
    /\ frames = 0
    /\ panicked = FALSE

(* ------------------------- respond_to_keyboard ------------------------- *)

\* Quat::from_rotation_z(+/- 0.1): (x, y, z, w) = (0, 0, sin(a/2), cos(a/2)).
FromRotationZ(negative) ==
    [z |-> IF negative THEN -SinHalfAngle ELSE SinHalfAngle, w |-> CosHalfAngle]

\* The quaternion product l * r of two rotations about z (x = y = 0).
QuatMul(l, r) ==
    [z |-> F32Add(F32Mul(l.w, r.z), F32Mul(l.z, r.w)),
     w |-> F32Sub(F32Mul(l.w, r.w), F32Mul(l.z, r.z))]

\* Transform::rotate_z: rotation = from_rotation_z(angle) * rotation.
RotateZ(e, negative) ==
    LET q == QuatMul(FromRotationZ(negative), [z |-> e.rz, w |-> e.rw])
    IN  [e EXCEPT !.rz = q.z, !.rw = q.w]

\* A faulty variant: the camera moves right whether or not ArrowRight is held.
MoveRightUnconditional(e, input) == [e EXCEPT !.tx = F32Add(@, One)]
MoveRight(e, input) ==
    IF "ArrowRight" \in input THEN [e EXCEPT !.tx = F32Add(@, One)] ELSE e
\* A faulty variant: ArrowLeft moves right.
MoveLeftAdds(e, input) ==
    IF "ArrowLeft" \in input THEN [e EXCEPT !.tx = F32Add(@, One)] ELSE e
MoveLeft(e, input) ==
    IF "ArrowLeft" \in input THEN [e EXCEPT !.tx = F32Sub(@, One)] ELSE e
MoveUp(e, input) ==
    IF "ArrowUp" \in input THEN [e EXCEPT !.ty = F32Add(@, One)] ELSE e
\* A faulty variant: ArrowDown moves two units.
MoveDownTwoUnits(e, input) ==
    IF "ArrowDown" \in input THEN [e EXCEPT !.ty = F32Sub(@, F32FromInt(2))]
    ELSE e
MoveDown(e, input) ==
    IF "ArrowDown" \in input THEN [e EXCEPT !.ty = F32Sub(@, One)] ELSE e
\* A faulty variant: Q rotates the way E does.
RotateQPositive(e, input) ==
    IF "KeyQ" \in input THEN RotateZ(e, FALSE) ELSE e
RotateQ(e, input) ==
    IF "KeyQ" \in input THEN RotateZ(e, TRUE) ELSE e
RotateE(e, input) ==
    IF "KeyE" \in input THEN RotateZ(e, FALSE) ELSE e
\* A faulty variant: W multiplies the scale.
ZoomWMultiplies(e, input) ==
    IF "KeyW" \in input THEN [e EXCEPT !.proj = F32Mul(@, ZoomFactor)] ELSE e
ZoomW(e, input) ==
    IF "KeyW" \in input THEN [e EXCEPT !.proj = F32Div(@, ZoomFactor)] ELSE e
ZoomS(e, input) ==
    IF "KeyS" \in input THEN [e EXCEPT !.proj = F32Mul(@, ZoomFactor)] ELSE e

\* The body of respond_to_keyboard on the camera it found: the eight ifs in order.
Respond(e, input) ==
    ZoomS(ZoomW(RotateE(RotateQ(
        MoveDown(MoveUp(MoveLeft(MoveRight(e, input), input), input), input),
        input), input), input), input)

\* A faulty variant: the query asks for the Player marker.
PlayerQuery == Query({"Transform", "Player"})

\* The camera query of respond_to_keyboard.
CameraQuery == Query({"Transform", "OrthographicProjection", "Camera"})

\* The Update schedule: respond_to_keyboard.  single_mut() panics unless exactly
\* one entity matches.  The update ends; pointer events of the frame are dropped.
RespondToKeyboard ==
    /\ pc = "update"
    /\ IF Cardinality(CameraQuery) = 1
       THEN LET i == CHOOSE j \in CameraQuery : TRUE
            IN  /\ world' = [world EXCEPT ![i] = Respond(world[i], keys)]
                /\ panicked' = panicked
       ELSE /\ world' = world
            /\ panicked' = TRUE
    /\ pc' = "idle"
    /\ frames' = frames + 1
    /\ pointer' = "none"
    /\ UNCHANGED <<started, ran, commands, keys>>

(* ----------------------------- App::update ----------------------------- *)

\* app.update() begins: the first one runs the Startup schedule before Update.
BeginUpdate(limit) ==
    /\ pc = "idle"
    /\ ~panicked
    /\ frames < limit
    /\ pc' = IF started THEN "update" ELSE "startup"
    /\ UNCHANGED <<started, ran, commands, world, keys, pointer, frames, panicked>>

\* A startup system runs (in any order): its spawn is queued in its Commands.
RunStartupSystem(s, bundle) ==
    /\ pc = "startup"
    /\ s \notin ran
    /\ ran' = ran \cup {s}
    /\ commands' = Append(commands, bundle)
    /\ UNCHANGED <<pc, started, world, keys, pointer, frames, panicked>>

\* A faulty variant: add_camera spawns what add_player spawns.
add_camera_spawns_player == RunStartupSystem("add_camera", PlayerBundle)

add_camera == RunStartupSystem("add_camera", Camera2dBundle)
add_player == RunStartupSystem("add_player", PlayerBundle)

\* A faulty variant: the Update schedule starts with the commands still queued.
ApplyDeferredSkipped ==
    /\ pc = "startup"
    /\ ran = StartupSystems
    /\ started' = TRUE
    /\ pc' = "update"
    /\ UNCHANGED <<ran, commands, world, keys, pointer, frames, panicked>>

\* The end of the Startup schedule: the queued commands are applied.
ApplyDeferred ==
    /\ pc = "startup"
    /\ ran = StartupSystems
    /\ world' = world \o commands
    /\ commands' = <<>>
    /\ started' = TRUE
    /\ pc' = "update"
    /\ UNCHANGED <<ran, keys, pointer, frames, panicked>>

(* ------------------------- input between frames ------------------------ *)

\* ButtonInput::press / release, between two updates.  At most maxHeld keys are
\* held at a time, and keys change only before update number keyFrames.
Press(k, maxHeld, keyFrames) ==
    /\ pc = "idle"
    /\ frames < keyFrames
    /\ k \notin keys
    /\ Cardinality(keys) < maxHeld
    /\ keys' = keys \cup {k}
    /\ UNCHANGED <<pc, started, ran, commands, world, pointer, frames, panicked>>

Release(k, keyFrames) ==
    /\ pc = "idle"
    /\ frames < keyFrames
    /\ k \in keys
    /\ keys' = keys \ {k}
    /\ UNCHANGED <<pc, started, ran, commands, world, pointer, frames, panicked>>

\* A pointer button, motion or wheel event arrives between two updates.
PointerInput(ev) ==
    /\ pc = "idle"
    /\ pointer = "none"
    /\ pointer' = ev
    /\ UNCHANGED <<pc, started, ran, commands, world, keys, frames, panicked>>

(* --------------------------- the tests' readers ------------------------ *)

\* query.single() of the tests' helpers: the one camera, the one player.
TheCamera == world[CHOOSE i \in Query({"Camera"}) : TRUE]
ThePlayer == world[CHOOSE i \in Query({"Player"}) : TRUE]

get_camera_position == <<TheCamera.tx, TheCamera.ty>>
get_camera_rotation == TheCamera.rz
get_camera_zoom == TheCamera.proj
get_player_position == <<ThePlayer.tx, ThePlayer.ty>>
get_player_scale == <<ThePlayer.sx, ThePlayer.sy>>

(* ---------------------------- specifications --------------------------- *)

\* Spec: any of the nine keys, at most MaxHeld held at a time, MaxFrames updates.
MaxFrames == 2
MaxHeld == 1

PressKey == \E k \in AllKeys : Press(k, MaxHeld, MaxFrames + 1)
ReleaseKey == \E k \in AllKeys : Release(k, MaxFrames + 1)
Update == BeginUpdate(MaxFrames)

Next ==
    \/ PressKey
    \/ ReleaseKey
    \/ Update
    \/ add_camera
    \/ add_player
    \/ ApplyDeferred
    \/ RespondToKeyboard

Spec == Init /\ [][Next]_vars

\* SpecPointer: Spec with pointer events between the updates.
MovePointer == \E ev \in PointerEvents : PointerInput(ev)

NextPointer ==
    \/ PressKey
    \/ ReleaseKey
    \/ MovePointer
    \/ Update
    \/ add_camera
    \/ add_player
    \/ ApplyDeferred
    \/ RespondToKeyboard

SpecPointer == Init /\ [][NextPointer]_vars

\* SpecRotate: only Q and E, MaxRotateFrames updates.
MaxRotateFrames == 5

PressRotate == \E k \in RotateKeys : Press(k, MaxHeld, MaxRotateFrames + 1)
ReleaseRotate == \E k \in RotateKeys : Release(k, MaxRotateFrames + 1)
UpdateRotate == BeginUpdate(MaxRotateFrames)

NextRotate ==
    \/ PressRotate
    \/ ReleaseRotate
    \/ UpdateRotate
    \/ add_camera
    \/ add_player
    \/ ApplyDeferred
    \/ RespondToKeyboard

SpecRotate == Init /\ [][NextRotate]_vars

\* SpecZoom: only W and S; the keys change before the first MaxZoomKeyFrames
\* updates and are then held as they are for up to MaxZoomFrames updates.
MaxZoomKeyFrames == 2
MaxZoomFrames == 1100

PressZoom == \E k \in ZoomKeys : Press(k, MaxHeld, MaxZoomKeyFrames)
ReleaseZoom == \E k \in ZoomKeys : Release(k, MaxZoomKeyFrames)
UpdateZoom == BeginUpdate(MaxZoomFrames)

NextZoom ==
    \/ PressZoom
    \/ ReleaseZoom
    \/ UpdateZoom
    \/ add_camera
    \/ add_player
    \/ ApplyDeferred
    \/ RespondToKeyboard

SpecZoom == Init /\ [][NextZoom]_vars

\* SpecPairs: the eight control keys, at most two (a pair) held at a time,
\* MaxPairFrames updates.
MaxPairFrames == 2

PressPair == \E k \in ControlKeys : Press(k, 2, MaxPairFrames + 1)
ReleasePair == \E k \in ControlKeys : Release(k, MaxPairFrames + 1)
UpdatePair == BeginUpdate(MaxPairFrames)

NextPairs ==
    \/ PressPair
    \/ ReleasePair
    \/ UpdatePair
    \/ add_camera
    \/ add_player
    \/ ApplyDeferred
    \/ RespondToKeyboard

SpecPairs == Init /\ [][NextPairs]_vars

(* ------------------------------ properties ----------------------------- *)

\* A step that is one run of respond_to_keyboard (the end of an update).
UpdateStep == pc = "update" /\ pc' = "idle" /\ ~panicked'

\* Not inside App::update, and at least one update has completed.
AfterUpdate == pc = "idle" /\ frames >= 1

\* The value of an f32 that is a whole number (truncated otherwise).
F32ToInt(a) ==
    LET m == F32Mant(a)
        e == F32Exp(a)
        v == IF e >= 0 THEN m * Pow2(e)
             ELSE IF e < -30 THEN 0 ELSE m \div Pow2(-e)
    IN  IF a < 0 THEN -v ELSE v

F32IsWhole(a) == F32IsFinite(a) /\ a = F32FromInt(F32ToInt(a))

\* The value of an f32 in units of 2^-k, truncated toward zero.
Fixed(a, k) ==
    LET m == F32Mant(a)
        e == F32Exp(a) + k
        v == IF e >= 0 THEN m * Pow2(e)
             ELSE IF e < -30 THEN 0 ELSE m \div Pow2(-e)
    IN  IF a < 0 THEN -v ELSE v

\* A finite f32 that is not subnormal (at least 2^-126 in magnitude).
F32IsNormal(a) == Abs(a) >= Pow2(23) /\ F32IsFinite(a)

Origin == <<0, 0>>

\* C1: after the first update and after every later one, whatever keys are held,
\* there is exactly one camera and exactly one Player.
C1_OneCameraOnePlayer ==
    AfterUpdate => count_n_cameras = 1 /\ count_n_players = 1

C1_Witness ==
    /\ AfterUpdate
    /\ frames = 2
    /\ keys /= {}
    /\ count_n_cameras = 1
    /\ count_n_players = 1

\* C2: the first update, run with none of the eight control keys held, leaves
\* the camera at (0, 0), unrotated and with zoom 1.
C2_CameraStartsAtRest ==
    [][(UpdateStep /\ frames = 0 /\ keys \cap ControlKeys = {})
        => /\ get_camera_position' = Origin
           /\ get_camera_rotation' = 0
           /\ TheCamera'.rw = One
           /\ get_camera_zoom' = One]_vars

C2_Witness ==
    /\ AfterUpdate
    /\ frames = 1
    /\ keys = {"Space"}
    /\ get_camera_position = Origin
    /\ get_camera_rotation = 0
    /\ get_camera_zoom = One

\* C3: from the first update on, whatever keys are held in any frame, the
\* player is at (0, 0) with scale (64, 32): only the camera is ever mutated.
C3_PlayerNeverChanges ==
    started => /\ count_n_players = 1
               /\ get_player_position = Origin
               /\ get_player_scale = <<F32FromInt(64), F32FromInt(32)>>

C3_Witness ==
    /\ AfterUpdate
    /\ frames = 2
    /\ get_camera_position /= Origin
    /\ get_player_position = Origin
    /\ get_player_scale = <<F32FromInt(64), F32FromInt(32)>>

ZoomRatioIsElevenTenths(small, big) ==
    (small >= Pow2(23) * 123 /\ big <= Pow2(23) * 131)
        => Abs(11 * Fixed(small, 20) - 10 * Fixed(big, 20)) <= 32

\* C5 as stated: every update with only W held makes the zoom strictly smaller,
\* every update with only S held makes it strictly larger.
C5_ZoomAlwaysStrict ==
    [][UpdateStep =>
        /\ keys \cap ZoomKeys = {"KeyW"} => get_camera_zoom' < get_camera_zoom
        /\ keys \cap ZoomKeys = {"KeyS"} => get_camera_zoom' > get_camera_zoom]_vars

\* C5 (amended): while the zoom is a normal finite f32, an update with only W
\* held makes it strictly smaller (divided by 1.1) and an update with only S
\* held makes it strictly larger (multiplied by 1.1); from zoom 1, W gives a
\* zoom below 1 and S a zoom above 1.
C5_ZoomStrictWhileNormal ==
    [][(UpdateStep /\ F32IsNormal(get_camera_zoom)) =>
        /\ keys \cap ZoomKeys = {"KeyW"} =>
              /\ get_camera_zoom' < get_camera_zoom
              /\ get_camera_zoom' > 0
              /\ ZoomRatioIsElevenTenths(get_camera_zoom', get_camera_zoom)
        /\ keys \cap ZoomKeys = {"KeyS"} =>
              /\ get_camera_zoom' > get_camera_zoom
              /\ ZoomRatioIsElevenTenths(get_camera_zoom, get_camera_zoom')]_vars

C5_Witness ==
    /\ AfterUpdate
    /\ frames = 3
    /\ keys = {"KeyW"}
    /\ F32IsNormal(get_camera_zoom)
    /\ get_camera_zoom < One

\* sin(d/2) * |q|^2 in units of 2^-30, for the rotation d that takes q to q2.
HalfAngleSine(q, q2) ==
    Fixed(q2.z, 15) * Fixed(q.w, 15) - Fixed(q2.w, 15) * Fixed(q.z, 15)

CameraRotation == [z |-> TheCamera.rz, w |-> TheCamera.rw]

\* C6: an update with only Q held rotates the camera about z by -0.1 radians,
\* one with only E held by +0.1 radians (the half-angle sine of the change is
\* -/+ sin(0.05), to within 0.5 percent); from the unrotated camera either
\* leaves a rotation different from 0.
C6_RotateByTenthRadian ==
    [][UpdateStep =>
        LET d == HalfAngleSine(CameraRotation, CameraRotation')
            s == Fixed(SinHalfAngle, 30)
        IN  /\ keys \cap RotateKeys = {"KeyQ"} => Abs(d + s) <= Pow2(18)
            /\ keys \cap RotateKeys = {"KeyE"} => Abs(d - s) <= Pow2(18)
            /\ (Cardinality(keys \cap RotateKeys) = 1 /\ get_camera_rotation = 0)
                 => get_camera_rotation' /= 0]_vars

C6_Witness ==
    /\ AfterUpdate
    /\ frames = 3
    /\ keys = {"KeyQ"}
    /\ get_camera_rotation < -SinHalfAngle

\* C7: a frame in which the pointer's button, motion or wheel state changed
\* mutates the camera's transform or projection.
C7_PointerMovesCamera ==
    [][(UpdateStep /\ pointer /= "none") => TheCamera' /= TheCamera]_vars

\* C8: create_app() spawns nothing; in the first update both startup systems,
\* in either order, have run and their spawns are applied before
\* respond_to_keyboard runs, which in every update finds exactly one camera and
\* never panics.
C8_StartupBeforeUpdate ==
    /\ ~started => world = <<>>
    /\ pc = "update" => /\ started
                        /\ ran = StartupSystems
                        /\ commands = <<>>
                        /\ Cardinality(CameraQuery) = 1
                        /\ count_n_players = 1
    /\ ~panicked

C8_Witness ==
    /\ pc = "update"
    /\ frames = 0
    /\ "Player" \in world[1].comps
    /\ "Camera" \in world[2].comps
    /\ keys /= {}

\* C9: an update changes the position only if an arrow key is held, the
\* rotation only if Q or E is held and the zoom only if W or S is held; with
\* none of the eight keys held (another key may be) the camera is unchanged.
C9_OnlyHeldKeysAct ==
    [][UpdateStep =>
        /\ keys \cap ArrowKeys = {} => get_camera_position' = get_camera_position
        /\ keys \cap RotateKeys = {} => CameraRotation' = CameraRotation
        /\ keys \cap ZoomKeys = {} => get_camera_zoom' = get_camera_zoom
        /\ keys \cap ControlKeys = {} => TheCamera' = TheCamera]_vars

C9_Witness ==
    /\ AfterUpdate
    /\ frames = 2
    /\ keys = {"Space"}
    /\ get_camera_position = <<0, F32FromInt(1)>>

\* What the camera is after one more update with exactly the keys ks held.
NextCamera(ks) == Respond(TheCamera', ks)

RotationClose(a, b) ==
    (Abs(b.rz) <= One /\ Abs(b.rw) <= One)
        => /\ Abs(Fixed(a.rz, 24) - Fixed(b.rz, 24)) <= 8
           /\ Abs(Fixed(a.rw, 24) - Fixed(b.rw, 24)) <= 8

\* Two coordinates that are equal; said of a coordinate b below 2^24 in
\* magnitude, where every whole number is an f32.
CoordinateSame(a, b) == Abs(b) < F32FromInt(Pow2(24)) => a = b

\* Two zooms at most 2 units in the last place apart; said of a normal zoom b
\* and a finite zoom a only.
ZoomClose(a, b) ==
    (F32IsNormal(b.proj) /\ F32IsFinite(a.proj)) => Abs(a.proj - b.proj) <= 2

====
